---- MODULE Spec2Model ----
(***************************************************************************)
(* Model of examples/pessimistic.py: the upper-bound cardinality estimator *)
(* (UpperBoundCardinalities) and the pessimistic operator selection        *)
(* (PessimisticOperators).  One invocation of an entry point is one        *)
(* action; its inputs (query, database snapshot, join order, ...) are      *)
(* drawn from bounded sets.  Python values are tagged records, so that an  *)
(* exception, None, a list, a tuple and a number stay distinguishable.     *)
(* The sample-generation loops of examples/cardinality-samples-generator.py *)
(* and examples/qep-samples-generator.py are modelled beside it, one loop   *)
(* iteration per step, under a specification of their own (GenSpec).        *)
(***************************************************************************)
EXTENDS Integers, Sequences, FiniteSets, TLC

\* ------------------------------------------------------------------ bounds
MaxCount == 2        \* a value occurs at most MaxCount times in a column
MaxPreds == 2        \* table pairs of a plan-level query that carry a join predicate
MaxNQueries == 10    \* largest --n-queries of a generator run
MaxSkipped == 1      \* fresh queries of a generator run beyond the n_queries it needs
MaxCardinality == 2  \* largest count(*) a generated query returns

TableSeq == <<"A", "B", "C", "D">>   \* table references of the workload
Tables == {TableSeq[i] : i \in DOMAIN TableSeq}
Values == 1..2                   \* domain of the join columns

\* ---------------------------------------------------------- python values
None == [tag |-> "None"]
Raise(exc) == [tag |-> "raise", exc |-> exc]
IsRaise(v) == v.tag = "raise"
PyList(items) == [tag |-> "list", items |-> items]
PyTuple(items) == [tag |-> "tuple", items |-> items]

RECURSIVE Gcd(_, _)
Gcd(a, b) == IF b = 0 THEN a ELSE Gcd(b, a % b)

\* a number: the exact rational n/d in lowest terms, d > 0
Num(n, d) == LET g == Gcd(n, d) IN [tag |-> "num", n |-> n \div g, d |-> d \div g]
PyInt(n) == Num(n, 1)
NumLeq(a, b) == a.n * b.d <= b.n * a.d

\* pb.Cardinality.unknown()
Unknown == [tag |-> "unknown"]

\* a / b
TrueDiv(a, b) ==
    IF a.tag # "num" \/ b.tag # "num" THEN Raise("TypeError")
    ELSE IF b.n = 0 THEN Raise("ZeroDivisionError")
    ELSE IF b.n < 0 THEN Num(-(a.n * b.d), -(a.d * b.n))
    ELSE Num(a.n * b.d, a.d * b.n)

\* a * b
Mul(a, b) ==
    IF a.tag # "num" \/ b.tag # "num" THEN Raise("TypeError")
    ELSE Num(a.n * b.n, a.d * b.d)

\* min(a, b)
min(a, b) ==
    IF a.tag # "num" \/ b.tag # "num" THEN Raise("TypeError")
    ELSE IF NumLeq(b, a) /\ ~NumLeq(a, b) THEN b ELSE a

\* seq[i] with Python's 0-based index i >= 0
GetItem(seq, i) ==
    IF seq.tag \notin {"list", "tuple"} THEN Raise("TypeError")
    ELSE IF i < Len(seq.items) THEN seq.items[i + 1]
    ELSE Raise("IndexError")

\* ------------------------------------------------- queries and predicates
Column(t, c) == [tag |-> "column", table |-> t, name |-> c]

\* one equality lhs = rhs between columns of two tables
Equality(l, r) == [lhs |-> l, rhs |-> r]

\* query.predicates().joins_between(lhs, rhs): the equalities of the query
\* that link the two tables; an empty predicate is falsy
joins_between(query, lhs, rhs) ==
    {e \in query.preds : {e.lhs.table, e.rhs.table} = {lhs, rhs} /\ lhs # rhs}

\* join_predicate.columns_of(table)
columns_of(join_predicate, table) ==
    {e.lhs : e \in {p \in join_predicate : p.lhs.table = table}}
        \cup {e.rhs : e \in {p \in join_predicate : p.rhs.table = table}}

\* pb.util.simplify(columns): the single column, or the ambiguity signalled
simplify(columns) ==
    IF Cardinality(columns) = 1 THEN CHOOSE c \in columns : TRUE
    ELSE Raise("AmbiguousJoinColumn")

\* --------------------------------------------------------------- database
\* A snapshot maps a table to [rows, filt]: rows[v] is the number of rows of
\* the table whose join columns hold the value v of 1..n, filt[v] the number
\* of those rows that survive the query's filters on the table.
RECURSIVE SumRange(_, _, _)
SumRange(bag, lo, hi) ==
    IF lo > hi THEN 0
    ELSE IF lo = hi THEN bag[lo]
    ELSE LET mid == (lo + hi) \div 2
         IN SumRange(bag, lo, mid) + SumRange(bag, mid + 1, hi)

\* the number of rows of a bag over the values 1..n
Size(bag) == SumRange(bag, 1, Len(bag))

RECURSIVE TopK(_, _)
TopK(entries, k) ==
    IF k = 0 \/ entries = {} THEN <<>>
    ELSE LET top == CHOOSE e \in entries :
                        \A o \in entries : o[2] < e[2] \/ (o[2] = e[2] /\ o[1] >= e[1])
         IN <<PyTuple(<<PyInt(top[1]), PyInt(top[2])>>)>> \o TopK(entries \ {top}, k - 1)

\* target_db.statistics().most_common_values(column, k): the k most frequent
\* values of the column with their frequencies, most frequent first
most_common_values(db, column, k) ==
    IF column.tag # "column" THEN Raise("StatisticsUnavailable")
    ELSE LET rows == db[column.table].rows
         IN PyList(TopK({<<v, rows[v]>> : v \in {u \in DOMAIN rows : rows[u] > 0}}, k))

\* target_db.optimizer().cardinality_estimate(subquery)
cardinality_estimate(db, table) == PyInt(Size(db[table].filt))

\* UpperBoundCardinalities.filtered_card
filtered_card(query, db, table) == cardinality_estimate(db, table)

\* --------------------------------------------------- calculate_estimate
\* lines 38-56: the bound of one pair that has a join predicate
estimate_upper_bound(query, db, lhs, rhs, join_predicate) ==
    LET lhs_column == simplify(columns_of(join_predicate, lhs))
        rhs_column == simplify(columns_of(join_predicate, rhs))
    IN  IF IsRaise(lhs_column) THEN lhs_column
        ELSE IF IsRaise(rhs_column) THEN rhs_column
        ELSE
    LET lhs_topk == most_common_values(db, lhs_column, 1)
    IN  IF IsRaise(lhs_topk) THEN lhs_topk ELSE
    LET lhs_mcf == GetItem(lhs_topk, 1)
    IN  IF IsRaise(lhs_mcf) THEN lhs_mcf ELSE
    LET rhs_topk == most_common_values(db, rhs_column, 1)
    IN  IF IsRaise(rhs_topk) THEN rhs_topk ELSE
    LET rhs_mcf == GetItem(rhs_topk, 1)
    IN  IF IsRaise(rhs_mcf) THEN rhs_mcf ELSE
    LET lhs_card == filtered_card(query, db, lhs)
        rhs_card == filtered_card(query, db, rhs)
        lhs_groups == TrueDiv(lhs_card, lhs_mcf)
    IN  IF IsRaise(lhs_groups) THEN lhs_groups ELSE
    LET rhs_groups == TrueDiv(rhs_card, rhs_mcf)
    IN  IF IsRaise(rhs_groups) THEN rhs_groups ELSE
        Mul(Mul(min(lhs_groups, rhs_groups), lhs_mcf), rhs_mcf)

\* calculate_estimate with the missing predicate answered by the cardinality 0
calculate_estimate_zero_without_predicate(query, db, tables) ==
    IF Len(tables) # 2 THEN Unknown
    ELSE LET lhs == tables[1]
             rhs == tables[2]
             join_predicate == joins_between(query, lhs, rhs)
         IN IF join_predicate = {} THEN PyInt(0)
            ELSE estimate_upper_bound(query, db, lhs, rhs, join_predicate)

calculate_estimate(query, db, tables) ==
    IF Len(tables) # 2 THEN Unknown
    ELSE LET lhs == tables[1]
             rhs == tables[2]
             join_predicate == joins_between(query, lhs, rhs)
         IN IF join_predicate = {} THEN Unknown
            ELSE estimate_upper_bound(query, db, lhs, rhs, join_predicate)

\* ------------------------------------------------------------ join orders
\* pb.LogicalJoinTree: a scan of a base table, or a join of two subtrees
Scan(t) == [tag |-> "scan", table |-> t]
JoinNode(outer, inner) == [tag |-> "join", outer |-> outer, inner |-> inner]

\* join.tables(): the tables below a node, as a set
RECURSIVE tables_of(_)
tables_of(node) ==
    IF node.tag = "scan" THEN {node.table}
    ELSE tables_of(node.outer) \cup tables_of(node.inner)

\* join_order.iterjoins(): the join nodes of the tree, depth first
RECURSIVE iterjoins(_)
iterjoins(node) ==
    IF node.tag = "scan" THEN <<>>
    ELSE iterjoins(node.outer) \o iterjoins(node.inner) \o <<node>>

\* join.is_base_join(): both children are base tables
is_base_join(join) ==
    join.tag = "join" /\ join.outer.tag = "scan" /\ join.inner.tag = "scan"

\* a set of tables as Python iterates it: `order` lists the tables in the
\* iteration order of the interpreter's sets
IterSet(S, order) == SelectSeq(order, LAMBDA t : t \in S)

PySet(S) == [tag |-> "set", items |-> S]

\* itertools.combinations(iterable, 2), in the order it yields
RECURSIVE combinations2(_)
combinations2(seq) ==
    IF Len(seq) < 2 THEN <<>>
    ELSE [j \in 1..(Len(seq) - 1) |-> PyTuple(<<seq[1], seq[j + 1]>>)]
             \o combinations2(Tail(seq))

\* the candidate pairs with the is_base_join() filter left out
base_joins_of_every_join(query, join_order, order) ==
    IF join_order.tag # "None"
    THEN LET joins == iterjoins(join_order)
         IN [i \in 1..Len(joins) |-> PySet(tables_of(joins[i]))]
    ELSE combinations2(IterSet(query.tables, order))

\* the candidate pairs with a join counted as a base join as soon as one of
\* its children is a base table
base_joins_of_one_base_child(query, join_order, order) ==
    IF join_order.tag # "None"
    THEN LET joins == SelectSeq(iterjoins(join_order),
                                LAMBDA j : j.outer.tag = "scan" \/ j.inner.tag = "scan")
         IN [i \in 1..Len(joins) |-> PySet(tables_of(joins[i]))]
    ELSE combinations2(IterSet(query.tables, order))

\* the candidate pairs with itertools.permutations in place of combinations
base_joins_of_permutations(query, join_order, order) ==
    IF join_order.tag # "None"
    THEN LET joins == SelectSeq(iterjoins(join_order), is_base_join)
         IN [i \in 1..Len(joins) |-> PySet(tables_of(joins[i]))]
    ELSE LET tables == IterSet(query.tables, order)
             both == combinations2(tables) \o combinations2(
                         [i \in 1..Len(tables) |-> tables[Len(tables) + 1 - i]])
         IN both

\* lines 74-79: the candidate pairs of one call
base_joins_of(query, join_order, order) ==
    IF join_order.tag # "None"
    THEN LET joins == SelectSeq(iterjoins(join_order), is_base_join)
         IN [i \in 1..Len(joins) |-> PySet(tables_of(joins[i]))]
    ELSE combinations2(IterSet(query.tables, order))

\* line 82: lhs, rhs = base_join
Unpack(base_join, order) ==
    IF base_join.tag = "set" THEN IterSet(base_join.items, order) ELSE base_join.items

\* ------------------------------------------------ generate_plan_parameters
\* pb.Cardinality(value)
Cardinality_of(value) == IF value.tag = "num" THEN value ELSE Raise("TypeError")

\* pb.PlanParameterization(): no cardinality hint yet
PlanParameterization == [cardinality_hints |-> <<>>]

\* parameters.add_cardinality_hint(tables, cardinality): keyed by the set of tables
add_cardinality_hint(parameters, tables, cardinality) ==
    LET key == IF tables.tag = "set" THEN tables.items
               ELSE {tables.items[i] : i \in 1..Len(tables.items)}
        hints == parameters.cardinality_hints
    IN [parameters EXCEPT !.cardinality_hints =
            [k \in (DOMAIN hints) \cup {key} |-> IF k = key THEN cardinality ELSE hints[k]]]

\* the loop body with the frequency read from the top entry, [0][1], while
\* calculate_estimate keeps its subscript [1]
loop_upper_bound_top_entry(query, db, lhs, rhs, join_predicate) ==
    LET lhs_column == simplify(columns_of(join_predicate, lhs))
        rhs_column == simplify(columns_of(join_predicate, rhs))
    IN  IF IsRaise(lhs_column) THEN lhs_column
        ELSE IF IsRaise(rhs_column) THEN rhs_column
        ELSE
    LET lhs_top == GetItem(most_common_values(db, lhs_column, 1), 0)
    IN  IF IsRaise(lhs_top) THEN lhs_top ELSE
    LET rhs_top == GetItem(most_common_values(db, rhs_column, 1), 0)
    IN  IF IsRaise(rhs_top) THEN rhs_top ELSE
    LET lhs_mcf == GetItem(lhs_top, 1)
        rhs_mcf == GetItem(rhs_top, 1)
        lhs_groups == TrueDiv(filtered_card(query, db, lhs), lhs_mcf)
        rhs_groups == TrueDiv(filtered_card(query, db, rhs), rhs_mcf)
    IN  IF IsRaise(lhs_groups) THEN lhs_groups
        ELSE IF IsRaise(rhs_groups) THEN rhs_groups
        ELSE Mul(Mul(min(lhs_groups, rhs_groups), lhs_mcf), rhs_mcf)

\* lines 87-105: the bound of one candidate pair that has a join predicate
loop_upper_bound(query, db, lhs, rhs, join_predicate) ==
    LET lhs_column == simplify(columns_of(join_predicate, lhs))
        rhs_column == simplify(columns_of(join_predicate, rhs))
    IN  IF IsRaise(lhs_column) THEN lhs_column
        ELSE IF IsRaise(rhs_column) THEN rhs_column
        ELSE
    LET lhs_topk == most_common_values(db, lhs_column, 1)
    IN  IF IsRaise(lhs_topk) THEN lhs_topk ELSE
    LET lhs_mcf == GetItem(lhs_topk, 1)
    IN  IF IsRaise(lhs_mcf) THEN lhs_mcf ELSE
    LET rhs_topk == most_common_values(db, rhs_column, 1)
    IN  IF IsRaise(rhs_topk) THEN rhs_topk ELSE
    LET rhs_mcf == GetItem(rhs_topk, 1)
    IN  IF IsRaise(rhs_mcf) THEN rhs_mcf ELSE
    LET lhs_card == filtered_card(query, db, lhs)
        rhs_card == filtered_card(query, db, rhs)
        lhs_groups == TrueDiv(lhs_card, lhs_mcf)
    IN  IF IsRaise(lhs_groups) THEN lhs_groups ELSE
    LET rhs_groups == TrueDiv(rhs_card, rhs_mcf)
    IN  IF IsRaise(rhs_groups) THEN rhs_groups ELSE
        Mul(Mul(min(lhs_groups, rhs_groups), lhs_mcf), rhs_mcf)

\* lines 81-108: the loop from candidate i on.  `evaluated` lists the
\* candidates whose loop body was entered; an exception ends the call and
\* the local `parameters` is lost with it.
RECURSIVE plan_loop(_, _, _, _, _, _, _)
plan_loop(query, db, order, base_joins, i, parameters, evaluated) ==
    IF i > Len(base_joins)
    THEN [status |-> "returned", exc |-> "", parameters |-> parameters,
          evaluated |-> evaluated, base_joins |-> base_joins]
    ELSE
    LET base_join == base_joins[i]
        lhs == Unpack(base_join, order)[1]
        rhs == Unpack(base_join, order)[2]
        join_predicate == joins_between(query, lhs, rhs)
        entered == Append(evaluated, base_join)
    IN  IF join_predicate = {}
        THEN plan_loop(query, db, order, base_joins, i + 1, parameters, entered)
        ELSE
    LET upper_bound == loop_upper_bound(query, db, lhs, rhs, join_predicate)
        hint == IF IsRaise(upper_bound) THEN upper_bound ELSE Cardinality_of(upper_bound)
    IN  IF IsRaise(hint)
        THEN [status |-> "raised", exc |-> hint.exc, parameters |-> None,
              evaluated |-> entered, base_joins |-> base_joins]
        ELSE plan_loop(query, db, order, base_joins, i + 1,
                       add_cardinality_hint(parameters, base_join, hint), entered)

generate_plan_parameters(query, db, join_order, order) ==
    plan_loop(query, db, order, base_joins_of(query, join_order, order), 1,
              PlanParameterization, <<>>)

\* ----------------------------------------------- select_physical_operators
JoinOperators == {"NestedLoopJoin", "HashJoin", "SortMergeJoin"}

\* pb.PhysicalOperatorAssignment(): nothing set
PhysicalOperatorAssignment == [global_settings |-> <<>>, join_operators |-> {}]

\* assignment.set_operator_enabled_globally(operator, enabled)
set_operator_enabled_globally(assignment, operator, enabled) ==
    [assignment EXCEPT !.global_settings =
        [o \in (DOMAIN @) \cup {operator} |-> IF o = operator THEN enabled ELSE @[o]]]

\* the alternative the source leaves commented out: hash join set on every
\* join of the join order instead of globally
select_physical_operators_per_join(query, join_order) ==
    LET joins == IF join_order.tag = "None" THEN <<>> ELSE iterjoins(join_order)
    IN [PhysicalOperatorAssignment EXCEPT
            !.join_operators = {<<"HashJoin", tables_of(joins[i])>> : i \in DOMAIN joins}]

select_physical_operators(query, join_order) ==
    LET a0 == PhysicalOperatorAssignment
        a1 == set_operator_enabled_globally(a0, "NestedLoopJoin", FALSE)
        a2 == set_operator_enabled_globally(a1, "HashJoin", TRUE)
        a3 == set_operator_enabled_globally(a2, "SortMergeJoin", FALSE)
    IN a3

\* ------------------------------------------------------------------ inputs
\* the contents of one table: every value at most MaxCount times, the
\* filtered rows among them
Contents ==
    {c \in [rows : [Values -> 0..MaxCount], filt : [Values -> 0..MaxCount]] :
        \A v \in Values : c.filt[v] <= c.rows[v]}

EmptyContent == [rows |-> [v \in Values |-> 0], filt |-> [v \in Values |-> 0]]
SkewContent == [rows |-> [v \in Values |-> IF v = 1 THEN MaxCount ELSE 1],
                filt |-> [v \in Values |-> 1]]

\* the predicate shapes between tables a and b
SingleColumn(a, b) == {Equality(Column(a, "x"), Column(b, "y"))}
TwoColumnsOneSide(a, b) ==
    {Equality(Column(a, "x"), Column(b, "y")), Equality(Column(a, "y"), Column(b, "y"))}
TwoColumnsBothSides(a, b) ==
    {Equality(Column(a, "x"), Column(b, "x")), Equality(Column(a, "y"), Column(b, "y"))}

Query(T, preds) == [tables |-> T, preds |-> preds]

\* estimate level: two tables, every predicate shape, every content
EstimateQueries ==
    {Query({"A", "B"}, p) :
        p \in {{}, SingleColumn("A", "B"), SingleColumn("B", "A"),
               TwoColumnsOneSide("A", "B"), TwoColumnsBothSides("A", "B")}}
EstimateSnapshots == [{"A", "B"} -> Contents]
TableArgs == {<<"A">>, <<"A", "B">>, <<"B", "A">>, <<"A", "B", "C">>}

\* plan level: two to four tables, at most MaxPreds joined pairs
TableSets == {{"A", "B"}, {"A", "B", "C"}, Tables}
Pairs(T) == {P \in SUBSET T : Cardinality(P) = 2}
Ascending(T) == SelectSeq(TableSeq, LAMBDA t : t \in T)
Descending(T) == [i \in 1..Cardinality(T) |-> Ascending(T)[Cardinality(T) + 1 - i]]
Lo(P) == Ascending(P)[1]
Hi(P) == Ascending(P)[2]

PlanPredicates(T) ==
    {UNION {IF shape[P] THEN SingleColumn(Lo(P), Hi(P)) ELSE TwoColumnsOneSide(Lo(P), Hi(P)) :
                P \in J} :
        J \in {K \in SUBSET Pairs(T) : Cardinality(K) <= MaxPreds},
        shape \in [Pairs(T) -> BOOLEAN]}
PlanQueries == UNION {{Query(T, p) : p \in PlanPredicates(T)} : T \in TableSets}
PlanSnapshots(T) == {[t \in T |-> EmptyContent], [t \in T |-> SkewContent]}

RECURSIVE JoinTrees(_)
JoinTrees(S) ==
    IF Cardinality(S) = 1 THEN {Scan(t) : t \in S}
    ELSE UNION {{JoinNode(l, r) : l \in JoinTrees(L), r \in JoinTrees(S \ L)} :
                    L \in (SUBSET S) \ {{}, S}}

\* the join orders a call may be given for a query: none, or a tree over its tables
JoinOrders(query) == {None} \cup JoinTrees(query.tables)

IterationOrders(T) ==
    {s \in [1..Cardinality(T) -> T] : \A i, j \in DOMAIN s : s[i] = s[j] => i = j}

\* the iteration orders of table sets tried for a call: all of them when the
\* pairs come from query.tables(), both orientations of a pair otherwise
SetOrders(query, join_order) ==
    IF join_order.tag = "None" THEN IterationOrders(query.tables)
    ELSE {Ascending(query.tables), Descending(query.tables)}

\* the scenario of R (1000 rows, 500 after filtering, most common value 5
\* times) joined with S (2000 rows, unfiltered, most common value 10 times)
ScenarioSnapshot ==
    [t \in {"A", "B"} |->
        IF t = "A"
        THEN [rows |-> [v \in 1..200 |-> 5], filt |-> [v \in 1..200 |-> IF v <= 100 THEN 5 ELSE 0]]
        ELSE [rows |-> [v \in 1..200 |-> 10], filt |-> [v \in 1..200 |-> 10]]]

\* ------------------------------------------------------------------- state
\* One behaviour is one invocation of an entry point: nothing persists
\* between calls.  op names the entry point invoked ("idle" before the call),
\* args its arguments and the snapshot it read, result what it returned or
\* raised.
VARIABLES op, args, result

\* The generator scripts: script names the one that runs ("" when none does),
\* n_queries is args.n_queries, generated_queries and tried_queries are the
\* loop's locals, samples the rows appended to the CSV file, pc the position
\* of the run ("off", "loop", "done", "raised") and error what it raised.
VARIABLES script, n_queries, generated_queries, tried_queries, samples, pc, error
genvars == <<script, n_queries, generated_queries, tried_queries, samples, pc, error>>

vars == <<op, args, result, genvars>>

\* no generator script runs
GenOff ==
    /\ script = ""
    /\ n_queries = 0
    /\ generated_queries = 0
    /\ tried_queries = {}
    /\ samples = <<>>
    /\ pc = "off"
    /\ error = ""

Init ==
    /\ op = "idle"
    /\ args = None
    /\ result = None
    /\ GenOff

CalculateEstimate ==
    /\ op = "idle"
    /\ \E query \in EstimateQueries, db \in EstimateSnapshots \cup {ScenarioSnapshot},
          tables \in TableArgs :
        /\ op' = "calculate_estimate"
        /\ args' = [query |-> query, db |-> db, tables |-> tables]
        /\ result' = calculate_estimate(query, db, tables)
    /\ UNCHANGED genvars

GeneratePlanParameters ==
    /\ op = "idle"
    /\ \E query \in PlanQueries :
       \E db \in PlanSnapshots(query.tables), join_order \in JoinOrders(query) :
       \E order \in SetOrders(query, join_order) :
        /\ op' = "generate_plan_parameters"
        /\ args' = [query |-> query, db |-> db, join_order |-> join_order, order |-> order]
        /\ result' = generate_plan_parameters(query, db, join_order, order)
    /\ UNCHANGED genvars

SelectPhysicalOperators ==
    /\ op = "idle"
    /\ \E query \in PlanQueries :
       \E join_order \in JoinOrders(query) :
        /\ op' = "select_physical_operators"
        /\ args' = [query |-> query, join_order |-> join_order]
        /\ result' = select_physical_operators(query, join_order)
    /\ UNCHANGED genvars

Next == CalculateEstimate \/ GeneratePlanParameters \/ SelectPhysicalOperators

Spec == Init /\ [][Next]_vars

\* ------------------------------------------------------- sample generators
Scripts == {"cardinality", "qep"}

\* pg_instance.execute_with_timeout(query, timeout=120): None on a timeout,
\* else the rows of the result; a count(*) query returns one row of one value
ResultSets ==
    {None, PyList(<<>>)} \cup {PyList(<<PyTuple(<<c>>)>>) : c \in 0..MaxCardinality}

\* the locals of the loop
Locals ==
    [generated_queries |-> generated_queries, tried_queries |-> tried_queries,
     samples |-> samples, pc |-> pc, error |-> error]

\* line 65 (line 67 of the qep script): the progress condition
\*   generated_queries and generated_queries % (args.n_queries // 10) == 0
\* raises when it comes to divide by zero
ProgressCheckRaises(st, n) == st.generated_queries # 0 /\ n \div 10 = 0

\* lines 64-95 of cardinality-samples-generator.py: one iteration of the
\* loop on the query the generator yields and the result of executing it
cardinality_iteration(st, n, query, result_set) ==
    IF ProgressCheckRaises(st, n)
    THEN [st EXCEPT !.pc = "raised", !.error = "ZeroDivisionError"]
    ELSE IF query \in st.tried_queries THEN st
    ELSE
    LET tried == [st EXCEPT !.tried_queries = @ \cup {query}]
    IN  IF result_set.tag = "None" \/ Len(result_set.items) = 0 THEN tried
        ELSE
    LET cardinality == result_set.items[1].items[1]
    IN  IF cardinality = 0 THEN tried
        ELSE [tried EXCEPT
                !.samples = Append(@, [query |-> query, cardinality |-> cardinality]),
                !.generated_queries = @ + 1]

\* lines 66-103 of qep-samples-generator.py: one iteration of the loop
qep_iteration(st, n, query, result_set) ==
    IF ProgressCheckRaises(st, n)
    THEN [st EXCEPT !.pc = "raised", !.error = "ZeroDivisionError"]
    ELSE IF query \in st.tried_queries THEN st
    ELSE
    LET tried == [st EXCEPT !.tried_queries = @ \cup {query}]
        timeout == result_set.tag = "None"
    IN  IF timeout THEN tried
        ELSE [tried EXCEPT
                !.samples = Append(@, [query |-> query, query_plan |-> query]),
                !.generated_queries = @ + 1]

\* next(query_generator): a query tried before, or a fresh one; fresh queries
\* are numbered in the order they first appear
GeneratedQueries ==
    tried_queries \cup
        {q \in {Cardinality(tried_queries) + 1} : q <= n_queries + MaxSkipped}

GenInit ==
    /\ op = "idle"
    /\ args = None
    /\ result = None
    /\ script \in Scripts
    /\ n_queries \in 1..MaxNQueries
    /\ generated_queries = 0
    /\ tried_queries = {}
    /\ samples = <<>>
    /\ pc = "loop"
    /\ error = ""

LoopIteration ==
    /\ pc = "loop"
    /\ generated_queries < n_queries
    /\ \E query \in GeneratedQueries :
       \* a query tried before is not executed
       \E result_set \in IF query \in tried_queries THEN {None} ELSE ResultSets :
        LET st == IF script = "cardinality"
                  THEN cardinality_iteration(Locals, n_queries, query, result_set)
                  ELSE qep_iteration(Locals, n_queries, query, result_set)
        IN /\ generated_queries' = st.generated_queries
           /\ tried_queries' = st.tried_queries
           /\ samples' = st.samples
           /\ pc' = st.pc
           /\ error' = st.error
    /\ UNCHANGED <<op, args, result, script, n_queries>>

LoopExit ==
    /\ pc = "loop"
    /\ ~(generated_queries < n_queries)
    /\ pc' = "done"
    /\ UNCHANGED <<op, args, result, script, n_queries, generated_queries,
                   tried_queries, samples, error>>

GenNext == LoopIteration \/ LoopExit

GenSpec == GenInit /\ [][GenNext]_vars

\* ================================================================== claims
\* ------------------------------------------------ what the claims speak of
IsEstimate == op = "calculate_estimate"
IsPlan == op = "generate_plan_parameters"
IsOperators == op = "select_physical_operators"

\* the pair of a calculate_estimate call is joined on one column each
SingleColumnPair(query, lhs, rhs) ==
    LET jp == joins_between(query, lhs, rhs)
    IN /\ jp # {}
       /\ Cardinality(columns_of(jp, lhs)) = 1
       /\ Cardinality(columns_of(jp, rhs)) = 1

\* more than one column of lhs or of rhs in the predicate between them
MultiColumnPair(query, lhs, rhs) ==
    LET jp == joins_between(query, lhs, rhs)
    IN /\ jp # {}
       /\ \/ Cardinality(columns_of(jp, lhs)) > 1
          \/ Cardinality(columns_of(jp, rhs)) > 1

\* frequency of the most common value of a table's join column: the
\* frequency component of the top entry of most_common_values, 0 when the
\* column holds no value
TopFrequency(db, table) ==
    LET topk == most_common_values(db, Column(table, "x"), 1)
    IN IF Len(topk.items) = 0 THEN PyInt(0) ELSE topk.items[1].items[2]

\* min(card_lhs / freq_lhs, card_rhs / freq_rhs) * freq_lhs * freq_rhs
ClaimedBound(db, lhs, rhs) ==
    LET freq_lhs == TopFrequency(db, lhs)
        freq_rhs == TopFrequency(db, rhs)
        card_lhs == PyInt(Size(db[lhs].filt))
        card_rhs == PyInt(Size(db[rhs].filt))
    IN Mul(Mul(min(TrueDiv(card_lhs, freq_lhs), TrueDiv(card_rhs, freq_rhs)), freq_lhs), freq_rhs)

\* rows of the equi-join of the two filtered relations
TrueJoinSize(db, lhs, rhs) ==
    LET f == db[lhs].filt
        g == db[rhs].filt
        n == IF Len(f) <= Len(g) THEN Len(f) ELSE Len(g)
    IN SumRange([v \in 1..n |-> f[v] * g[v]], 1, n)

\* a calculate_estimate call on two tables joined on one column each, both
\* columns holding at least one value
EstimateOfValidPair ==
    /\ IsEstimate
    /\ Len(args.tables) = 2
    /\ SingleColumnPair(args.query, args.tables[1], args.tables[2])
    /\ TopFrequency(args.db, args.tables[1]).n >= 1
    /\ TopFrequency(args.db, args.tables[2]).n >= 1

\* C1: for two relations joined on one column each, with most-common-value
\* frequencies >= 1, calculate_estimate computes a value that is at least the
\* true number of rows of the equi-join.
C1_BoundIsSound ==
    EstimateOfValidPair =>
        /\ result.tag = "num"
        /\ NumLeq(PyInt(TrueJoinSize(args.db, args.tables[1], args.tables[2])), result)

\* C2: for a single-column equi-join pair calculate_estimate returns exactly
\* min(card_lhs/freq_lhs, card_rhs/freq_rhs) * freq_lhs * freq_rhs with freq_*
\* the frequency of the top entry of most_common_values; cardinalities 500 and
\* 2000 with frequencies 5 and 10 give 5000.
C2_ReturnsFormula ==
    /\ EstimateOfValidPair =>
           /\ result.tag = "num"
           /\ result = ClaimedBound(args.db, args.tables[1], args.tables[2])
    /\ (EstimateOfValidPair /\ args.db = ScenarioSnapshot) =>
           /\ result.tag = "num"
           /\ result = PyInt(5000)

\* the hint of a pair in a returned parameterization is the cardinality 0
HintIsZero(P) ==
    /\ result.status = "returned"
    /\ P \in DOMAIN result.parameters.cardinality_hints
    /\ result.parameters.cardinality_hints[P].tag = "num"
    /\ result.parameters.cardinality_hints[P].n = 0

\* C3: when the most-common-value frequency of either join column is 0,
\* calculate_estimate and generate_plan_parameters produce Cardinality 0 for
\* the pair and raise no error.
C3_ZeroFrequencyGuard ==
    /\ ( /\ IsEstimate
         /\ Len(args.tables) = 2
         /\ SingleColumnPair(args.query, args.tables[1], args.tables[2])
         /\ \E t \in {args.tables[1], args.tables[2]} : TopFrequency(args.db, t).n = 0 )
       => (result.tag = "num" /\ result.n = 0)
    /\ IsPlan =>
         \A i \in DOMAIN result.base_joins :
            LET pair == Unpack(result.base_joins[i], args.order)
            IN ( /\ SingleColumnPair(args.query, pair[1], pair[2])
                 /\ \E t \in {pair[1], pair[2]} : TopFrequency(args.db, t).n = 0 )
               => HintIsZero({pair[1], pair[2]})

\* C4: a pair of tables without a direct join predicate makes
\* calculate_estimate return the unknown sentinel (not 0, not an error), and
\* a returned PlanParameterization holds no entry for such a pair.
C4_NoPredicateIsUnknown ==
    /\ ( /\ IsEstimate
         /\ Len(args.tables) = 2
         /\ joins_between(args.query, args.tables[1], args.tables[2]) = {} )
       => result.tag = "unknown"
    /\ (IsPlan /\ result.status = "returned") =>
         \A P \in Pairs(args.query.tables) :
            joins_between(args.query, Lo(P), Hi(P)) = {}
                => P \notin DOMAIN result.parameters.cardinality_hints

\* C4 happens: an estimate of two non-empty tables without a join predicate
C4_Witness ==
    /\ IsEstimate
    /\ args.tables = <<"A", "B">>
    /\ args.query.preds = {}
    /\ Size(args.db["A"].filt) > 0
    /\ Size(args.db["B"].filt) > 0
    /\ result.tag = "unknown"

\* C5: a join predicate with more than one column on either side makes
\* calculate_estimate return the unknown sentinel.
C5_MultiColumnIsUnknown ==
    ( /\ IsEstimate
      /\ Len(args.tables) = 2
      /\ MultiColumnPair(args.query, args.tables[1], args.tables[2]) )
    => result.tag = "unknown"

\* C6: when one pair of a generate_plan_parameters call fails, the hints of
\* the earlier pairs are still returned and the remaining pairs are still
\* evaluated: every call returns a parameterization and evaluates every
\* candidate pair.
C6_FailureIsIsolated ==
    IsPlan =>
        /\ result.status = "returned"
        /\ Len(result.evaluated) = Len(result.base_joins)

\* the fixed assignment: hash join only, set globally, nothing per join
PessimisticAssignment ==
    [global_settings |-> [o \in JoinOperators |-> o = "HashJoin"], join_operators |-> {}]

\* C7: select_physical_operators returns the same total assignment for every
\* query and join order: nested-loop disabled, hash enabled, sort-merge
\* disabled, globally, with no per-join entry.
C7_FixedAssignment ==
    IsOperators =>
        /\ DOMAIN result.global_settings = JoinOperators
        /\ result = PessimisticAssignment

\* C7 happens: the operators of a query with predicates under a join order
C7_Witness ==
    /\ IsOperators
    /\ args.join_order.tag = "join"
    /\ args.query.preds # {}
    /\ result.global_settings["HashJoin"]

\* the table pairs joined by nodes whose two children are both base tables,
\* read off the tree itself
RECURSIVE BaseJoinPairs(_)
BaseJoinPairs(node) ==
    IF node.tag = "scan" THEN {}
    ELSE IF node.outer.tag = "scan" /\ node.inner.tag = "scan"
         THEN {{node.outer.table, node.inner.table}}
         ELSE BaseJoinPairs(node.outer) \cup BaseJoinPairs(node.inner)

\* the table sets of the join nodes with a joined child
RECURSIVE CompoundJoinSets(_)
CompoundJoinSets(node) ==
    IF node.tag = "scan" THEN {}
    ELSE (IF node.outer.tag = "scan" /\ node.inner.tag = "scan" THEN {} ELSE {tables_of(node)})
            \cup CompoundJoinSets(node.outer) \cup CompoundJoinSets(node.inner)

RECURSIVE CountJoins(_)
CountJoins(node) ==
    IF node.tag = "scan" THEN 0 ELSE 1 + CountJoins(node.outer) + CountJoins(node.inner)

\* a candidate as the set of its elements
AsSet(base_join) ==
    IF base_join.tag = "set" THEN base_join.items
    ELSE {base_join.items[i] : i \in DOMAIN base_join.items}

CandidateSets == {AsSet(result.base_joins[i]) : i \in DOMAIN result.base_joins}
EvaluatedSets == {AsSet(result.evaluated[i]) : i \in DOMAIN result.evaluated}
HintedSets ==
    IF result.status = "returned" THEN DOMAIN result.parameters.cardinality_hints ELSE {}

\* the loop takes the candidates in order, each once, and stops only at the
\* end or at the candidate that raised
EvaluatedInOrder ==
    /\ Len(result.evaluated) <= Len(result.base_joins)
    /\ \A i \in DOMAIN result.evaluated : result.evaluated[i] = result.base_joins[i]
    /\ result.status = "returned" => Len(result.evaluated) = Len(result.base_joins)

NoCandidateTwice ==
    \A i, j \in DOMAIN result.base_joins :
        AsSet(result.base_joins[i]) = AsSet(result.base_joins[j]) => i = j

IsOrderedPlan == IsPlan /\ args.join_order.tag = "join"
IsUnorderedPlan == IsPlan /\ args.join_order.tag = "None"

RECURSIVE LeftDeep(_)
LeftDeep(node) ==
    node.tag = "scan" \/ (node.inner.tag = "scan" /\ LeftDeep(node.outer))

\* the innermost join of a left-deep tree
RECURSIVE Innermost(_)
Innermost(node) ==
    IF node.outer.tag = "scan" THEN {node.outer.table, node.inner.table}
    ELSE Innermost(node.outer)

\* C9 as stated: a left-deep join order over N base tables yields exactly
\* N-1 base-join pairs; a tree of compound joins only yields zero pairs.
C9_LeftDeepYieldsNMinus1 ==
    IsOrderedPlan =>
        /\ LeftDeep(args.join_order) =>
              Len(result.base_joins) = Cardinality(tables_of(args.join_order)) - 1
        /\ BaseJoinPairs(args.join_order) = {} => Len(result.base_joins) = 0

\* C9 amended: a left-deep join order over N >= 2 base tables yields exactly
\* one base-join pair, its innermost join; the other N-2 joins are compound
\* and yield nothing, so that any tree yields as many pairs as it has joins
\* that are not compound.
C9_LeftDeepYieldsInnermost ==
    IsOrderedPlan =>
        /\ Len(result.base_joins) =
              CountJoins(args.join_order) - Cardinality(CompoundJoinSets(args.join_order))
        /\ LeftDeep(args.join_order) =>
              /\ Len(result.base_joins) = 1
              /\ CandidateSets = {Innermost(args.join_order)}
              /\ Cardinality(CompoundJoinSets(args.join_order)) =
                    Cardinality(tables_of(args.join_order)) - 2

\* C9 happens: a left-deep order of four tables yields its innermost pair
C9_Witness ==
    /\ IsOrderedPlan
    /\ LeftDeep(args.join_order)
    /\ Cardinality(tables_of(args.join_order)) = 4
    /\ Len(result.base_joins) = 1

Outcome(r) ==
    IF r.status = "returned" THEN [status |-> "returned", hints |-> r.parameters.cardinality_hints]
    ELSE [status |-> "raised", hints |-> <<>>]

\* C11: the PlanParameterization built by generate_plan_parameters is keyed
\* by canonical unordered table pairs: it never holds two entries for one
\* unordered pair, and the final mapping is the same for every iteration
\* order of the candidate pairs.
C11_CanonicalKeys ==
    IsPlan =>
        /\ \A K \in HintedSets : Cardinality(K) = 2
        /\ \A order \in SetOrders(args.query, args.join_order) :
              Outcome(generate_plan_parameters(args.query, args.db, args.join_order, order))
                  = Outcome(result)

\* C11's case: a call that stored a hint for some pair
C11_HintStored == IsPlan /\ HintedSets # {}

\* the workflow of the default implementation: calculate_estimate on every
\* candidate pair, the pairs with an unknown estimate left out
RECURSIVE Composition(_, _, _, _, _, _)
Composition(query, db, order, base_joins, i, parameters) ==
    IF i > Len(base_joins)
    THEN [status |-> "returned", exc |-> "", parameters |-> parameters]
    ELSE
    LET estimate == calculate_estimate(query, db, Unpack(base_joins[i], order))
    IN  IF IsRaise(estimate)
        THEN [status |-> "raised", exc |-> estimate.exc, parameters |-> None]
        ELSE IF estimate.tag = "unknown"
        THEN Composition(query, db, order, base_joins, i + 1, parameters)
        ELSE Composition(query, db, order, base_joins, i + 1,
                         add_cardinality_hint(parameters, base_joins[i], estimate))

Composed ==
    Composition(args.query, args.db, args.order, result.base_joins, 1, PlanParameterization)

\* calculate_estimate on an unordered pair, in the iteration order of the call
EstimateOfPair(P) ==
    calculate_estimate(args.query, args.db, IterSet(P, args.order))

C13_ExactlyNSamples ==
    /\ pc # "raised"
    /\ Len(samples) <= n_queries
    /\ pc = "done" => Len(samples) = n_queries
    /\ \A i, j \in DOMAIN samples : samples[i].query = samples[j].query => i = j
    /\ script = "cardinality" => \A i \in DOMAIN samples : samples[i].cardinality # 0

====
